---- MODULE Spec2Model ----
(***************************************************************************)
(* Model of brax/physics/base.py: the Q / P / QP state algebra and the     *)
(* scene config normalizer validate_config.                                *)
(*                                                                         *)
(* Floats are modelled by small integers.  A frozen-axis flag is a float   *)
(* of a Vector3: 0 is "not set", any other value is "set" (Python          *)
(* truthiness); 1 is the value CopyFrom(allvec) writes and 2 stands for    *)
(* any other non-zero value.  The interpreter runs with assertions on      *)
(* (the default), so the assert of line 198 raises.                        *)
(***************************************************************************)
EXTENDS Integers, Sequences, FiniteSets, TLC

VARIABLES config, resource_paths, fs, before, prior, outcome, opened, calls,
          lhs, rhs, sum

vars == <<config, resource_paths, fs, before, prior, outcome, opened, calls,
          lhs, rhs, sum>>

(***************************************************************************)
(* Bounds of the model.                                                    *)
(***************************************************************************)
MaxBodies == 2
MaxJoints == 2
MaxActuators == 2
MaxGeoms == 2
MaxDirs == 2
MaxColliders == 1
MaxCalls == 2

(***************************************************************************)
(* Helpers on sequences.                                                   *)
(***************************************************************************)
SeqsUpTo(S, n) == UNION {[1..k -> S] : k \in 0..n}

Vector3(a, b, c) == [x |-> a, y |-> b, z |-> c]

\* Python truthiness of a float.
Truthy(v) == v # 0

\* Python's `a or b` on floats: a when a is truthy, b otherwise.
PyOr(a, b) == IF Truthy(a) THEN a ELSE b

(***************************************************************************)
(* State algebra: Q, P, QP.  A field is an array of Dim integers and + on   *)
(* arrays is the elementwise sum (jp.ndarray.__add__).                     *)
(***************************************************************************)
Dim == 2

\* jp.ndarray + jp.ndarray on arrays of one shape.
plus(u, v) == [i \in DOMAIN u |-> u[i] + v[i]]

Q(pos, rot) == [type |-> "Q", pos |-> pos, rot |-> rot]

P(vel, ang) == [type |-> "P", vel |-> vel, ang |-> ang]

QP(pos, rot, vel, ang) ==
    [type |-> "QP", pos |-> pos, rot |-> rot, vel |-> vel, ang |-> ang]

ValueError == [type |-> "ValueError"]

\* Q_add that does not add the pose of a QP operand.
Q_add_keeps_own_pose(self, o) ==
    IF o.type = "P" THEN QP(self.pos, self.rot, o.vel, o.ang)
    ELSE IF o.type = "Q" THEN Q(plus(self.pos, o.pos), plus(self.rot, o.rot))
    ELSE IF o.type = "QP" THEN QP(self.pos, self.rot, o.vel, o.ang)
    ELSE ValueError

Q_add(self, o) ==
    IF o.type = "P" THEN QP(self.pos, self.rot, o.vel, o.ang)
    ELSE IF o.type = "Q" THEN Q(plus(self.pos, o.pos), plus(self.rot, o.rot))
    ELSE IF o.type = "QP"
         THEN QP(plus(self.pos, o.pos), plus(self.rot, o.rot), o.vel, o.ang)
    ELSE ValueError

P_add(self, o) ==
    IF o.type = "P" THEN P(plus(self.vel, o.vel), plus(self.ang, o.ang))
    ELSE IF o.type = "Q" THEN QP(o.pos, o.rot, self.vel, self.ang)
    ELSE IF o.type = "QP"
         THEN QP(o.pos, o.rot, plus(self.vel, o.vel), plus(self.ang, o.ang))
    ELSE ValueError

QP_add(self, o) ==
    IF o.type = "P"
    THEN QP(self.pos, self.rot, plus(self.vel, o.vel), plus(self.ang, o.ang))
    ELSE IF o.type = "Q"
         THEN QP(plus(self.pos, o.pos), plus(self.rot, o.rot), self.vel, self.ang)
    ELSE IF o.type = "QP"
         THEN QP(plus(self.pos, o.pos), plus(self.rot, o.rot), plus(self.vel, o.vel),
                 plus(self.ang, o.ang))
    ELSE ValueError

\* Python's dispatch of a + b on the class of a.
Add(a, b) ==
    CASE a.type = "Q" -> Q_add(a, b)
      [] a.type = "P" -> P_add(a, b)
      [] a.type = "QP" -> QP_add(a, b)

(***************************************************************************)
(* Scene config normalizer: outcomes of a call.                            *)
(***************************************************************************)
NotCalled == [type |-> "none", msg |-> "", arg |-> ""]

Returned == [type |-> "return", msg |-> "", arg |-> ""]

\* line 157: the failure the spec calls InvalidConfig.
InvalidConfig ==
    [type |-> "RuntimeError", msg |-> "config.dt must be positive", arg |-> ""]

\* line 166: the failure the spec calls DuplicateName.
DuplicateName(name) ==
    [type |-> "RuntimeError", msg |-> "duplicate name in config", arg |-> name]

\* line 198: the failure the spec calls MissingResource.
MissingResource(path) ==
    [type |-> "AssertionError", msg |-> "is missing", arg |-> path]

IsDuplicateName(o) ==
    o.type = "RuntimeError" /\ o.msg = "duplicate name in config"

IsMissingResource(o) == o.type = "AssertionError"

(***************************************************************************)
(* find_dupes: the first object whose name an earlier object carries.      *)
(***************************************************************************)
Min(S) == CHOOSE m \in S : \A n \in S : m <= n

find_dupes(objs) ==
    LET D == {i \in 1..Len(objs) :
                 \E j \in 1..(i - 1) : objs[j].name = objs[i].name}
    IN IF D = {} THEN [raised |-> FALSE, name |-> ""]
       ELSE [raised |-> TRUE, name |-> objs[Min(D)].name]

\* all_find_dupes that checks the joints before the bodies.
all_find_dupes_joints_first(cfg) ==
    LET b == find_dupes(cfg.bodies)
        j == find_dupes(cfg.joints)
        a == find_dupes(cfg.actuators)
        m == find_dupes(cfg.mesh_geometries)
    IN IF j.raised THEN j
       ELSE IF b.raised THEN b
       ELSE IF a.raised THEN a
       ELSE m

\* The four find_dupes calls in the order of lines 169-172: the first that
\* raises ends the call.
all_find_dupes(cfg) ==
    LET b == find_dupes(cfg.bodies)
        j == find_dupes(cfg.joints)
        a == find_dupes(cfg.actuators)
        m == find_dupes(cfg.mesh_geometries)
    IN IF b.raised THEN b
       ELSE IF j.raised THEN j
       ELSE IF a.raised THEN a
       ELSE m

(***************************************************************************)
(* Mesh resolution.                                                        *)
(***************************************************************************)
\* os.path.join(resource_path, path) for a relative path: the file a
\* directory and a relative path name.
join(resource_path, path) == <<resource_path, path>>

\* file.Exists
Exists(files, path) == path \in files

\* What load_mesh returns for the file: a triangle whose coordinates tell
\* the directories and the files apart.
DirScale(d) == IF d = "" THEN 1 ELSE IF d = "assets" THEN 2 ELSE 3

FileScale(p) == IF p = "m.stl" THEN 0 ELSE 4

load_mesh(file) ==
    LET s == DirScale(file[1]) + FileScale(file[2])
    IN [vertices |-> << <<s, 0, 0>>, <<0, s, 0>>, <<0, 0, s>> >>,
        faces |-> << <<0, 1, 2>> >>,
        vertex_normals |-> << <<0, 0, s>>, <<0, 0, s>>, <<0, 0, s>> >>,
        face_normals |-> << <<0, 0, s>> >>]

\* trimesh.faces.flatten(): the M x 3 index array row by row.
RECURSIVE flatten(_)
flatten(rows) ==
    IF rows = <<>> THEN <<>>
    ELSE rows[1] \o flatten(Tail(rows))

\* for v in rows: field.add(x=v[0], y=v[1], z=v[2])
add_all(field, rows) ==
    field \o [i \in 1..Len(rows) |-> Vector3(rows[i][1], rows[i][2], rows[i][3])]

\* first_found that keeps searching and takes the last hit.
first_found_last(paths, files, path) ==
    LET H == {k \in 1..Len(paths) : Exists(files, join(paths[k], path))}
    IN IF H = {} THEN 0 ELSE CHOOSE m \in H : \A n \in H : m >= n

\* The inner loop of lines 183-197: the index of the first resource path
\* under which the file exists, 0 when there is none.
first_found(paths, files, path) ==
    LET H == {k \in 1..Len(paths) : Exists(files, join(paths[k], path))}
    IN IF H = {} THEN 0 ELSE Min(H)

\* lines 180-181: the data cleared before the search.
clear_geom(g) == [g EXCEPT !.vertices = <<>>, !.faces = <<>>]

\* fill_geom that leaves the path in place.
fill_geom_keeps_path(g, trimesh) ==
    [g EXCEPT !.vertices = add_all(@, trimesh.vertices),
              !.faces = @ \o flatten(trimesh.faces),
              !.vertex_normals = add_all(@, trimesh.vertex_normals),
              !.face_normals = add_all(@, trimesh.face_normals)]

\* lines 187-199: the geometry filled from the loaded mesh, path cleared.
fill_geom(g, trimesh) ==
    [g EXCEPT !.vertices = add_all(@, trimesh.vertices),
              !.faces = @ \o flatten(trimesh.faces),
              !.vertex_normals = add_all(@, trimesh.vertex_normals),
              !.face_normals = add_all(@, trimesh.face_normals),
              !.path = ""]

\* The loop of lines 177-199 from geometry i on.  `log` lists the files
\* opened so far; a missing file ends the loop with what was done before.
RECURSIVE load_meshes(_, _, _, _, _)
load_meshes(geoms, i, paths, files, log) ==
    IF i > Len(geoms)
    THEN [geoms |-> geoms, missing |-> FALSE, path |-> "", opened |-> log]
    ELSE IF geoms[i].path = ""
    THEN load_meshes(geoms, i + 1, paths, files, log)
    ELSE LET g == clear_geom(geoms[i])
             k == first_found(paths, files, g.path)
         IN IF k = 0
            THEN [geoms |-> [geoms EXCEPT ![i] = g], missing |-> TRUE,
                  path |-> g.path, opened |-> log]
            ELSE LET f == join(paths[k], g.path)
                 IN load_meshes([geoms EXCEPT ![i] = fill_geom(g, load_mesh(f))],
                                i + 1, paths, files,
                                Append(log, [geom |-> i, file |-> f]))

\* lines 175-176
search_paths(rp) == IF rp.is_none THEN <<"">> ELSE rp.paths

(***************************************************************************)
(* Frozen dimensions, inertia and materials.                               *)
(***************************************************************************)
allvec == Vector3(1, 1, 1)

\* all([position.x, position.y, position.z, rotation.x, rotation.y, rotation.z])
all_axes(f) ==
    /\ Truthy(f.position.x) /\ Truthy(f.position.y) /\ Truthy(f.position.z)
    /\ Truthy(f.rotation.x) /\ Truthy(f.rotation.y) /\ Truthy(f.rotation.z)

\* lines 206-213
reify_global(frozen) ==
    LET f1 == IF frozen.all
              THEN [frozen EXCEPT !.position = allvec, !.rotation = allvec]
              ELSE frozen
    IN IF all_axes(f1) THEN [f1 EXCEPT !.all = TRUE] ELSE f1

\* default_inertia that takes any zero axis for a missing inertia.
default_inertia_any_axis(inertia) ==
    IF inertia.x = 0 \/ inertia.y = 0 \/ inertia.z = 0
    THEN Vector3(1, 1, 1)
    ELSE inertia

\* lines 215-217
default_inertia(inertia) ==
    IF inertia.x = 0 /\ inertia.y = 0 /\ inertia.z = 0
    THEN Vector3(1, 1, 1)
    ELSE inertia

\* or_frozen that forgets the last rotation axis.
or_frozen_five_axes(bf, frozen) ==
    [bf EXCEPT !.position.x = PyOr(@, frozen.position.x),
               !.position.y = PyOr(@, frozen.position.y),
               !.position.z = PyOr(@, frozen.position.z),
               !.rotation.x = PyOr(@, frozen.rotation.x),
               !.rotation.y = PyOr(@, frozen.rotation.y)]

\* lines 219-224
or_frozen(bf, frozen) ==
    [bf EXCEPT !.position.x = PyOr(@, frozen.position.x),
               !.position.y = PyOr(@, frozen.position.y),
               !.position.z = PyOr(@, frozen.position.z),
               !.rotation.x = PyOr(@, frozen.rotation.x),
               !.rotation.y = PyOr(@, frozen.rotation.y),
               !.rotation.z = PyOr(@, frozen.rotation.z)]

\* lines 225-232
reify_body(bf) ==
    LET f1 == IF bf.all
              THEN [bf EXCEPT !.position = allvec, !.rotation = allvec]
              ELSE bf
    IN IF all_axes(f1) THEN [f1 EXCEPT !.all = TRUE] ELSE f1

\* insert_material that overwrites an explicit material too.
insert_material_always(c, friction, elasticity) ==
    [c EXCEPT !.has_material = TRUE,
              !.material.friction = friction,
              !.material.elasticity = elasticity]

\* lines 236-238: assigning a field of c.material makes the material present.
insert_material(c, friction, elasticity) ==
    IF ~c.has_material
    THEN [c EXCEPT !.has_material = TRUE,
                   !.material.friction = friction,
                   !.material.elasticity = elasticity]
    ELSE c

\* One pass of the loop of lines 214-238.
normalize_body(b, frozen, friction, elasticity) ==
    [b EXCEPT !.inertia = default_inertia(@),
              !.frozen = reify_body(or_frozen(@, frozen)),
              !.colliders = [i \in 1..Len(@) |->
                                insert_material(@[i], friction, elasticity)]]

\* all_bodies_frozen with any() for all().
any_body_frozen(bodies) == \E i \in 1..Len(bodies) : bodies[i].frozen.all

\* line 240
all_bodies_frozen(bodies) == \A i \in 1..Len(bodies) : bodies[i].frozen.all

\* lines 204-240
reify(cfg) ==
    LET frozen == reify_global(cfg.frozen)
        bodies == [i \in 1..Len(cfg.bodies) |->
                      normalize_body(cfg.bodies[i], frozen, cfg.friction,
                                     cfg.elasticity)]
    IN [cfg EXCEPT !.bodies = bodies,
                   !.frozen = [frozen EXCEPT !.all = all_bodies_frozen(bodies)]]

\* lines 159-160
default_substeps(cfg) ==
    IF cfg.substeps = 0 THEN [cfg EXCEPT !.substeps = 1] ELSE cfg

\* validate_config that defaults substeps before it checks dt.
validate_config_substeps_first(cfg, rp, files) ==
    LET c1 == default_substeps(cfg)
        d == all_find_dupes(c1)
    IN IF c1.dt <= 0
       THEN [config |-> c1, outcome |-> InvalidConfig, opened |-> <<>>]
       ELSE IF d.raised
       THEN [config |-> c1, outcome |-> DuplicateName(d.name), opened |-> <<>>]
       ELSE LET m == load_meshes(c1.mesh_geometries, 1, search_paths(rp),
                                 files, <<>>)
                c2 == [c1 EXCEPT !.mesh_geometries = m.geoms]
            IN IF m.missing
               THEN [config |-> c2, outcome |-> MissingResource(m.path),
                     opened |-> m.opened]
               ELSE [config |-> reify(c2), outcome |-> Returned,
                     opened |-> m.opened]

(***************************************************************************)
(* validate_config: the scene as the call leaves it (it is mutated in      *)
(* place, also when the call raises), how the call ended, and the files    *)
(* it opened.                                                              *)
(***************************************************************************)
validate_config(cfg, rp, files) ==
    IF cfg.dt <= 0
    THEN [config |-> cfg, outcome |-> InvalidConfig, opened |-> <<>>]
    ELSE LET c1 == default_substeps(cfg)
             d == all_find_dupes(c1)
         IN IF d.raised
            THEN [config |-> c1, outcome |-> DuplicateName(d.name),
                  opened |-> <<>>]
            ELSE LET m == load_meshes(c1.mesh_geometries, 1, search_paths(rp),
                                      files, <<>>)
                     c2 == [c1 EXCEPT !.mesh_geometries = m.geoms]
                 IN IF m.missing
                    THEN [config |-> c2, outcome |-> MissingResource(m.path),
                          opened |-> m.opened]
                    ELSE [config |-> reify(c2), outcome |-> Returned,
                          opened |-> m.opened]

(***************************************************************************)
(* Scenes the normalizer is called on.                                     *)
(***************************************************************************)
Names == {"a", "b"}

NameOf(i) == <<"a", "b", "c", "d">>[i]

Dirs == {"", "assets"}

Paths == {"m.stl", "n.obj"}

NoFrozen ==
    [all |-> FALSE, position |-> Vector3(0, 0, 0), rotation |-> Vector3(0, 0, 0)]

Body(name, inertia, frozen, colliders) ==
    [name |-> name, inertia |-> inertia, frozen |-> frozen,
     colliders |-> colliders]

PlainBody(name) == Body(name, Vector3(2, 2, 2), NoFrozen, <<>>)

\* A collider without a material reads the default material (0, 0).
NoMaterial ==
    [has_material |-> FALSE, material |-> [friction |-> 0, elasticity |-> 0]]

Material(f, e) ==
    [has_material |-> TRUE, material |-> [friction |-> f, elasticity |-> e]]

Named(names) == [i \in 1..Len(names) |-> [name |-> names[i]]]

\* A mesh geometry; `stale` gives it vertex, face and normal data of an
\* earlier resolution.
Geom(name, path, stale) ==
    [name |-> name, path |-> path,
     vertices |-> IF stale THEN <<Vector3(9, 9, 9)>> ELSE <<>>,
     faces |-> IF stale THEN <<0, 0, 0>> ELSE <<>>,
     vertex_normals |-> IF stale THEN <<Vector3(9, 0, 0)>> ELSE <<>>,
     face_normals |-> IF stale THEN <<Vector3(0, 9, 0)>> ELSE <<>>]

PlainConfig ==
    [dt |-> 1, substeps |-> 0, friction |-> 1, elasticity |-> 3,
     frozen |-> NoFrozen, bodies |-> <<PlainBody("a")>>, joints |-> <<>>,
     actuators |-> <<>>, mesh_geometries |-> <<>>]

NoPaths == [is_none |-> TRUE, paths |-> <<>>]

\* A scene with the given dt and names in the four categories; every mesh
\* geometry has a path.
NamedScene(d, bn, jn, an, gn) ==
    [PlainConfig EXCEPT
        !.dt = d,
        !.bodies = [i \in 1..Len(bn) |-> PlainBody(bn[i])],
        !.joints = Named(jn),
        !.actuators = Named(an),
        !.mesh_geometries = [i \in 1..Len(gn) |-> Geom(gn[i], "m.stl", FALSE)]]

\* Mesh geometries: with or without a path, with or without earlier data.
GeomInputs(i) ==
    {Geom(NameOf(i), p, stale) : p \in Paths \cup {""}, stale \in BOOLEAN}

RECURSIVE GeomListsOf(_)
GeomListsOf(k) ==
    IF k = 0 THEN {<<>>}
    ELSE {Append(l, g) : l \in GeomListsOf(k - 1), g \in GeomInputs(k)}

GeomLists == UNION {GeomListsOf(k) : k \in 0..MaxGeoms}

MeshScene(d, n, geoms) ==
    [PlainConfig EXCEPT !.dt = d, !.substeps = n, !.mesh_geometries = geoms]

\* The files that exist: m.stl in any of the directories, n.obj in the
\* current directory or nowhere.
FileSets == SUBSET ({join(d, "m.stl") : d \in Dirs} \cup {join("", "n.obj")})

PathInputs ==
    {NoPaths} \cup {[is_none |-> FALSE, paths |-> q] : q \in SeqsUpTo(Dirs, MaxDirs)}

\* Frozen flags of a scene or of a body.
FlagVectors ==
    {Vector3(u, v, w) : u \in {0, 1}, v \in {0, 1}, w \in {0, 1}}
        \cup {Vector3(2, 2, 2)}

FrozenInputs ==
    {[all |-> f, position |-> pv, rotation |-> rv] :
       f \in BOOLEAN, pv \in FlagVectors, rv \in FlagVectors}

\* A scene with the given global and per-body frozen flags.
FrozenScene(gf, bf, inertia) ==
    [PlainConfig EXCEPT !.frozen = gf,
                        !.bodies = [i \in 1..Len(bf) |->
                                      Body(NameOf(i), inertia, bf[i], <<>>)]]

\* A few frozen flags, for scenes of several bodies.
FewFrozen ==
    {NoFrozen,
     [NoFrozen EXCEPT !.all = TRUE],
     [NoFrozen EXCEPT !.position = allvec, !.rotation = allvec],
     [NoFrozen EXCEPT !.position = Vector3(2, 2, 2), !.rotation = Vector3(2, 2, 2)],
     [NoFrozen EXCEPT !.position = Vector3(1, 0, 0)],
     [NoFrozen EXCEPT !.position = allvec, !.rotation = Vector3(1, 1, 0)]}

\* Bodies that differ in their inertia or in their colliders.
ColliderInputs == {NoMaterial, Material(2, 2), Material(0, 0)}

BodyInputs(i) ==
    {Body(NameOf(i), Vector3(u, v, w), NoFrozen, <<>>) :
        u \in {0, 2}, v \in {0, 2}, w \in {0, 2}}
    \cup {Body(NameOf(i), Vector3(0, 0, 0), NoFrozen, c) :
             c \in SeqsUpTo(ColliderInputs, MaxColliders)}

RECURSIVE BodyListsOf(_)
BodyListsOf(k) ==
    IF k = 0 THEN {<<>>}
    ELSE {Append(l, b) : l \in BodyListsOf(k - 1), b \in BodyInputs(k)}

BodyLists == UNION {BodyListsOf(k) : k \in 1..MaxBodies}

BodyScene(f, e, bodies) ==
    [PlainConfig EXCEPT !.friction = f, !.elasticity = e, !.bodies = bodies]

\* Operands of the algebra.
Arrays ==
    {[i \in 1..Dim |-> 0], [i \in 1..Dim |-> 1], [i \in 1..Dim |-> i]}

Qs == {Q(p, r) : p \in Arrays, r \in Arrays}

Ps == {P(v, w) : v \in Arrays, w \in Arrays}

QPs == {QP(p, r, v, w) : p \in Arrays, r \in Arrays, v \in Arrays, w \in Arrays}

\* An operand that is none of Q, P, QP.
Other == [type |-> "float"]

NoOperand == [type |-> "none"]

(***************************************************************************)
(* Specification of the normalizer: a scene, the resource paths and the    *)
(* files that exist, then calls of validate_config on the same scene.      *)
(***************************************************************************)
NotCalledYet ==
    /\ before = config
    /\ prior = NotCalled
    /\ outcome = NotCalled
    /\ opened = <<>>
    /\ calls = 0

Init ==
    /\ \/ /\ \E bn \in SeqsUpTo(Names, MaxBodies), jn \in SeqsUpTo(Names, MaxJoints),
                an \in SeqsUpTo(Names, MaxActuators), gn \in SeqsUpTo(Names, MaxGeoms) :
                config = NamedScene(1, bn, jn, an, gn)
          /\ resource_paths = NoPaths
          /\ fs = {join("", "m.stl")}
       \/ /\ \E d \in {-1, 0}, bn \in SeqsUpTo(Names, MaxBodies),
                gn \in SeqsUpTo(Names, MaxGeoms) :
                config = NamedScene(d, bn, <<>>, <<>>, gn)
          /\ resource_paths = NoPaths
          /\ fs = {}
       \/ /\ \E ds \in {<<1, 0>>, <<1, 2>>}, g \in GeomLists :
                config = MeshScene(ds[1], ds[2], g)
          /\ resource_paths \in PathInputs
          /\ fs \in FileSets
       \/ /\ \/ \E gf \in FrozenInputs, bf \in FrozenInputs :
                   config = FrozenScene(gf, <<bf>>, Vector3(0, 0, 0))
             \/ \E gf \in FewFrozen, bf \in SeqsUpTo(FewFrozen, MaxBodies) :
                   config = FrozenScene(gf, bf, Vector3(2, 0, 0))
             \/ \E fe \in {<<1, 3>>, <<0, 0>>}, b \in BodyLists :
                   config = BodyScene(fe[1], fe[2], b)
          /\ resource_paths = NoPaths
          /\ fs = {}
    /\ NotCalledYet
    /\ lhs = NoOperand
    /\ rhs = NoOperand
    /\ sum = NoOperand

Validate ==
    /\ calls < MaxCalls
    /\ LET r == validate_config(config, resource_paths, fs)
       IN /\ config' = r.config
          /\ outcome' = r.outcome
          /\ opened' = r.opened
    /\ before' = config
    /\ prior' = outcome
    /\ calls' = calls + 1
    /\ UNCHANGED <<resource_paths, fs, lhs, rhs, sum>>

Next == Validate

Spec == Init /\ [][Next]_vars

(***************************************************************************)
(* Specification of the algebra: a + b for operands of the three types,    *)
(* and for a right operand of another type.                                *)
(***************************************************************************)
InitAlgebra ==
    /\ config = PlainConfig
    /\ resource_paths = NoPaths
    /\ fs = {}
    /\ NotCalledYet
    /\ lhs \in Qs \cup Ps \cup QPs
    /\ rhs \in Qs \cup Ps \cup QPs \cup {Other}
    /\ sum = NoOperand

\* sum = lhs + rhs
AddOperands ==
    /\ sum = NoOperand
    /\ sum' = Add(lhs, rhs)
    /\ UNCHANGED <<config, resource_paths, fs, before, prior, outcome, opened,
                   calls, lhs, rhs>>

NextAlgebra == AddOperands

SpecAlgebra == InitAlgebra /\ [][NextAlgebra]_vars

(***************************************************************************)
(* Vocabulary of the properties.                                           *)
(***************************************************************************)
Succeeded == calls > 0 /\ outcome = Returned

FirstCallSucceeded == calls = 1 /\ outcome = Returned

HasDuplicate(objs) ==
    \E i, j \in 1..Len(objs) : i # j /\ objs[i].name = objs[j].name

DuplicatedNames(objs) ==
    {objs[i].name : i \in {k \in 1..Len(objs) :
                              \E j \in 1..Len(objs) : j # k /\ objs[j].name = objs[k].name}}

Categories(cfg) ==
    <<cfg.bodies, cfg.joints, cfg.actuators, cfg.mesh_geometries>>

DuplicateCategories(cfg) ==
    {c \in 1..Len(Categories(cfg)) : HasDuplicate(Categories(cfg)[c])}

AsVectors(rows) ==
    [i \in 1..Len(rows) |-> [x |-> rows[i][1], y |-> rows[i][2], z |-> rows[i][3]]]

\* The directories searched, in order.
SearchOrder == IF resource_paths.is_none THEN <<"">> ELSE resource_paths.paths

\* The places of SearchOrder whose directory holds the file of geometry i.
Hits(i) ==
    {k \in 1..Len(SearchOrder) :
        <<SearchOrder[k], before.mesh_geometries[i].path>> \in fs}

WithPath(cfg) ==
    {i \in 1..Len(cfg.mesh_geometries) : cfg.mesh_geometries[i].path # ""}

Unfound == {i \in WithPath(before) : Hits(i) = {}}

OpenedFor(i) == {n \in 1..Len(opened) : opened[n].geom = i}

Axes ==
    {<<"position", "x">>, <<"position", "y">>, <<"position", "z">>,
     <<"rotation", "x">>, <<"rotation", "y">>, <<"rotation", "z">>}

IsSet(f, ax) == f[ax[1]][ax[2]] # 0

FullyFrozen(f) == \A ax \in Axes : IsSet(f, ax)

\* The three types of the algebra and the fields an operand carries.
Types == {"Q", "P", "QP"}

Fields(o) == DOMAIN o \ {"type"}

ResultType(a, b) ==
    IF a.type = "Q" /\ b.type = "Q" THEN "Q"
    ELSE IF a.type = "P" /\ b.type = "P" THEN "P"
    ELSE "QP"

FieldSum(a, b, f) ==
    IF f \in DOMAIN a /\ f \in DOMAIN b
    THEN [i \in 1..Dim |-> a[f][i] + b[f][i]]
    ELSE IF f \in DOMAIN a THEN a[f] ELSE b[f]

\* Frozen flags with a set freeze-all written out to the six axes.
Expanded(f) ==
    IF f.all
    THEN [f EXCEPT !.position = [x |-> 1, y |-> 1, z |-> 1],
                   !.rotation = [x |-> 1, y |-> 1, z |-> 1]]
    ELSE f

(***************************************************************************)
(* C1: validate_config checks in a fixed order and the first failure wins: *)
(* dt <= 0 fails with InvalidConfig whatever else is wrong; with dt > 0 a  *)
(* duplicate name fails with DuplicateName, naming a duplicate of the      *)
(* first category (bodies, joints, actuators, mesh geometries) that has    *)
(* one, before any mesh is resolved; a name shared only across categories  *)
(* is no duplicate.                                                        *)
(***************************************************************************)
C1_ValidationOrder ==
    calls > 0 =>
        LET dup == DuplicateCategories(before)
        IN /\ before.dt <= 0 => outcome = InvalidConfig
           /\ (before.dt > 0 /\ dup # {}) =>
                 /\ IsDuplicateName(outcome)
                 /\ outcome.arg \in DuplicatedNames(Categories(before)[Min(dup)])
                 /\ opened = <<>>
                 /\ config.mesh_geometries = before.mesh_geometries
           /\ (before.dt > 0 /\ dup = {}) => ~IsDuplicateName(outcome)

\* C1 witness: dt > 0, duplicate joints and duplicate mesh geometries of
\* different names, a body sharing a joint's name: the joints' duplicate is
\* reported.
C1_Witness ==
    /\ calls = 1
    /\ before.dt > 0
    /\ ~HasDuplicate(before.bodies)
    /\ HasDuplicate(before.joints)
    /\ HasDuplicate(before.mesh_geometries)
    /\ DuplicatedNames(before.joints) \cap DuplicatedNames(before.mesh_geometries) = {}
    /\ \E i \in 1..Len(before.bodies) : before.bodies[i].name = before.joints[1].name
    /\ fs # {}
    /\ IsDuplicateName(outcome)
    /\ outcome.arg \in DuplicatedNames(before.joints)

(***************************************************************************)
(* C2: after a successful validate_config, a mesh geometry that had a path *)
(* holds exactly the vertices, faces, vertex normals and face normals of   *)
(* the mesh loaded for it, nothing of what it held before.                 *)
(***************************************************************************)
C2_MeshDataReplaced ==
    Succeeded =>
        \A i \in WithPath(before) :
            \E n \in OpenedFor(i) :
                LET trimesh == load_mesh(opened[n].file)
                    g == config.mesh_geometries[i]
                IN /\ g.vertices = AsVectors(trimesh.vertices)
                   /\ g.faces = flatten(trimesh.faces)
                   /\ g.vertex_normals = AsVectors(trimesh.vertex_normals)
                   /\ g.face_normals = AsVectors(trimesh.face_normals)

(***************************************************************************)
(* C3 as claimed: whenever validate_config fails, every field of the scene *)
(* still has the value it had before the call.                             *)
(***************************************************************************)
C3_AllOrNothing == (calls > 0 /\ outcome # Returned) => config = before

(***************************************************************************)
(* C3 as amended: a failed validate_config leaves the bodies (frozen       *)
(* flags, inertias, collider materials), the global frozen flags, dt,      *)
(* friction, elasticity, joints and actuators as they were.  InvalidConfig *)
(* leaves the whole scene as it was.  DuplicateName and MissingResource    *)
(* come after substeps 0 was replaced by 1, and MissingResource leaves the *)
(* geometries before the failing one resolved (path cleared), the failing  *)
(* one without vertices and faces, and the later ones as they were.        *)
(***************************************************************************)
C3_FailureLeaves ==
    (calls > 0 /\ outcome # Returned) =>
        LET substeps == IF before.substeps = 0 THEN 1 ELSE before.substeps
            g0 == before.mesh_geometries
            g1 == config.mesh_geometries
        IN /\ [config EXCEPT !.substeps = before.substeps,
                             !.mesh_geometries = g0] = before
           /\ outcome = InvalidConfig => config = before
           /\ IsDuplicateName(outcome) =>
                 config = [before EXCEPT !.substeps = substeps]
           /\ IsMissingResource(outcome) =>
                 /\ config.substeps = substeps
                 /\ Len(g1) = Len(g0)
                 /\ \E i \in WithPath(before) :
                       /\ g0[i].path = outcome.arg
                       /\ g1[i] = [g0[i] EXCEPT !.vertices = <<>>, !.faces = <<>>]
                       /\ \A j \in 1..Len(g0) : j > i => g1[j] = g0[j]
                       /\ \A j \in 1..Len(g0) : j < i => g1[j].path = ""

\* C3 witness: MissingResource after substeps was defaulted, an earlier
\* geometry was loaded and the failing one lost its vertices.
C3_Witness ==
    /\ calls = 1
    /\ IsMissingResource(outcome)
    /\ before.substeps = 0
    /\ config.substeps = 1
    /\ opened # <<>>
    /\ \E i \in WithPath(before) :
          /\ config.mesh_geometries[i].path # ""
          /\ before.mesh_geometries[i].vertices # <<>>
          /\ config.mesh_geometries[i].vertices = <<>>

(***************************************************************************)
(* C4: after a successful validate_config a body is frozen on an axis      *)
(* exactly when, before the call, the body's flag on the axis, the body's  *)
(* freeze-all, the global flag on the axis or the global freeze-all was    *)
(* set; the body's freeze-all is set exactly when its six flags are; a     *)
(* global freeze-all on input gives every body all six flags.              *)
(***************************************************************************)
C4_FrozenPropagation ==
    Succeeded =>
        \A i \in 1..Len(before.bodies) :
            LET b0 == before.bodies[i].frozen
                b1 == config.bodies[i].frozen
                g0 == before.frozen
            IN /\ \A ax \in Axes :
                     IsSet(b1, ax) <=>
                        (IsSet(b0, ax) \/ b0.all \/ IsSet(g0, ax) \/ g0.all)
               /\ b1.all <=> FullyFrozen(b1)
               /\ g0.all => FullyFrozen(b1)

\* C4 witness: a body without flags under a global flag on one axis only.
C4_Witness ==
    /\ FirstCallSucceeded
    /\ ~before.frozen.all
    /\ IsSet(before.frozen, <<"rotation", "z">>)
    /\ ~IsSet(before.frozen, <<"position", "x">>)
    /\ \E i \in 1..Len(before.bodies) :
          /\ ~before.bodies[i].frozen.all
          /\ \A ax \in Axes : ~IsSet(before.bodies[i].frozen, ax)
          /\ IsSet(config.bodies[i].frozen, <<"rotation", "z">>)
          /\ ~IsSet(config.bodies[i].frozen, <<"position", "x">>)
          /\ ~config.bodies[i].frozen.all

(***************************************************************************)
(* C5: after a successful validate_config the global freeze-all flag is    *)
(* true if every body has all six per-axis flags set and false otherwise,  *)
(* whatever the global flags were on input and for any number of bodies.   *)
(***************************************************************************)
C5_GlobalFreezeAll ==
    Succeeded =>
        (config.frozen.all <=>
            \A i \in 1..Len(config.bodies) : FullyFrozen(config.bodies[i].frozen))

\* C5 witness: two or more bodies, each fully frozen on its own, in a scene
\* whose global flags were not set.
C5_Witness ==
    /\ FirstCallSucceeded
    /\ ~before.frozen.all
    /\ ~FullyFrozen(before.frozen)
    /\ Len(config.bodies) >= 2
    /\ config.frozen.all

(***************************************************************************)
(* C6: a + b for a, b among Q, P, QP succeeds; its type is Q for two Q, P  *)
(* for two P and QP otherwise; each field of the result is the elementwise *)
(* sum of that field over the operands that carry it; a + b = b + a.       *)
(***************************************************************************)
C6_AdditionClosed ==
    (sum.type # "none" /\ rhs.type \in Types) =>
        /\ sum.type = ResultType(lhs, rhs)
        /\ Fields(sum) = Fields(lhs) \cup Fields(rhs)
        /\ \A f \in Fields(sum) : sum[f] = FieldSum(lhs, rhs, f)
        /\ Add(rhs, lhs) = sum

\* C6 witness: Q + QP with non-zero poses.
C6_Witness ==
    /\ lhs.type = "Q"
    /\ rhs.type = "QP"
    /\ lhs.pos # [i \in 1..Dim |-> 0]
    /\ rhs.pos # [i \in 1..Dim |-> 0]
    /\ sum.type = "QP"
    /\ sum.pos # lhs.pos
    /\ sum.vel = rhs.vel

(***************************************************************************)
(* C7: for each mesh geometry with a path the resource directories are     *)
(* searched in order (only the current directory when none are given); the *)
(* mesh is loaded from the first directory that holds the file and from no *)
(* later one, and the path is cleared; a file no directory holds fails     *)
(* with MissingResource.  After success no geometry has a path and a       *)
(* geometry without a path on input is unchanged.                          *)
(***************************************************************************)
C7_MeshSearch ==
    (calls > 0 /\ before.dt > 0 /\ DuplicateCategories(before) = {}) =>
        LET g0 == before.mesh_geometries
            g1 == config.mesh_geometries
        IN /\ Unfound # {} => outcome = MissingResource(g0[Min(Unfound)].path)
           /\ Unfound = {} =>
                 /\ outcome = Returned
                 /\ WithPath(config) = {}
                 /\ \A i \in 1..Len(g0) : g0[i].path = "" => g1[i] = g0[i]
                 /\ \A i \in WithPath(before) :
                       LET file == <<SearchOrder[Min(Hits(i))], g0[i].path>>
                       IN /\ g1[i].vertices = AsVectors(load_mesh(file).vertices)
                          /\ g1[i].faces = flatten(load_mesh(file).faces)
                          /\ Cardinality(OpenedFor(i)) = 1
                          /\ \A n \in OpenedFor(i) : opened[n].file = file

\* C7 witness: two different directories that both hold the file; the first
\* is the one opened.
C7_Witness ==
    /\ FirstCallSucceeded
    /\ ~resource_paths.is_none
    /\ Len(resource_paths.paths) >= 2
    /\ \E i \in WithPath(before) :
          /\ Hits(i) = {1, 2}
          /\ SearchOrder[1] # SearchOrder[2]
          /\ \E n \in OpenedFor(i) : opened[n].file[1] = SearchOrder[1]
          /\ config.mesh_geometries[i].path = ""

(***************************************************************************)
(* C8: after a successful validate_config a body whose inertia was zero on *)
(* all three axes has inertia (1,1,1) and every other body, (2,0,0) for    *)
(* one, has its inertia unchanged.                                         *)
(***************************************************************************)
C8_DefaultInertia ==
    Succeeded =>
        \A i \in 1..Len(before.bodies) :
            IF before.bodies[i].inertia = [x |-> 0, y |-> 0, z |-> 0]
            THEN config.bodies[i].inertia = [x |-> 1, y |-> 1, z |-> 1]
            ELSE config.bodies[i].inertia = before.bodies[i].inertia

\* C8 witness: a body of inertia (2,0,0) beside one of inertia (0,0,0).
C8_Witness ==
    /\ FirstCallSucceeded
    /\ \E i, j \in 1..Len(before.bodies) :
          /\ before.bodies[i].inertia = [x |-> 2, y |-> 0, z |-> 0]
          /\ config.bodies[i].inertia = [x |-> 2, y |-> 0, z |-> 0]
          /\ before.bodies[j].inertia = [x |-> 0, y |-> 0, z |-> 0]
          /\ config.bodies[j].inertia = [x |-> 1, y |-> 1, z |-> 1]

(***************************************************************************)
(* C9: after a successful validate_config every collider has a material:   *)
(* the scene's friction and elasticity where it had none, its own,         *)
(* untouched, where it had one.                                            *)
(***************************************************************************)
C9_Materials ==
    Succeeded =>
        \A i \in 1..Len(before.bodies) :
            \A k \in 1..Len(before.bodies[i].colliders) :
                LET c0 == before.bodies[i].colliders[k]
                    c1 == config.bodies[i].colliders[k]
                IN /\ c1.has_material
                   /\ c1.material =
                         IF c0.has_material THEN c0.material
                         ELSE [friction |-> before.friction,
                               elasticity |-> before.elasticity]

\* C9 witness: a collider with a material unlike the scene's beside one
\* without a material.
C9_Witness ==
    /\ FirstCallSucceeded
    /\ \E i, j \in 1..Len(before.bodies) :
          /\ Len(before.bodies[i].colliders) > 0
          /\ Len(before.bodies[j].colliders) > 0
          /\ before.bodies[i].colliders[1].has_material
          /\ before.bodies[i].colliders[1].material.friction # before.friction
          /\ config.bodies[i].colliders[1] = before.bodies[i].colliders[1]
          /\ ~before.bodies[j].colliders[1].has_material
          /\ config.bodies[j].colliders[1].material.friction = before.friction
          /\ before.friction # 0

(***************************************************************************)
(* C10 as claimed: validate_config run again on the scene a successful run *)
(* returned succeeds and leaves every field of the scene unchanged.        *)
(***************************************************************************)
C10_Idempotent ==
    (calls >= 2 /\ prior = Returned) => (outcome = Returned /\ config = before)

(***************************************************************************)
(* C10 as amended: validate_config run again on the scene a successful run *)
(* returned succeeds and leaves every field unchanged except per-axis      *)
(* frozen flags: where the first run left a freeze-all flag true, on the   *)
(* scene or on a body, the second run writes 1 to its six per-axis flags.  *)
(***************************************************************************)
C10_RerunExpandsFrozen ==
    (calls >= 2 /\ prior = Returned) =>
        /\ outcome = Returned
        /\ config = [before EXCEPT
                        !.frozen = Expanded(@),
                        !.bodies = [i \in 1..Len(@) |->
                                       [@[i] EXCEPT !.frozen = Expanded(@)]]]

\* C10 witness: a second run that writes the global per-axis flags.
C10_Witness ==
    /\ calls = 2
    /\ prior = Returned
    /\ outcome = Returned
    /\ before.frozen.all
    /\ ~FullyFrozen(before.frozen)
    /\ FullyFrozen(config.frozen)
    /\ config.bodies = before.bodies

====
